---------------------------- MODULE Spec2Model ----------------------------
(***************************************************************************)
(* Sales analytics endpoint (src/app/api/sales/analytics/route.ts).        *)
(*                                                                         *)
(* The GET handler resolves a reporting window, fetches the transactions   *)
(* of the window and of the comparison window, and aggregates them into    *)
(* KPIs, a bucketed trend, a top-products list and a category breakdown.   *)
(*                                                                         *)
(* Time.  A JavaScript Date is an instant counted in milliseconds; here an *)
(* instant is an integer count of ticks of local time since 2020-01-01     *)
(* 00:00, with TicksPerHour ticks to the hour.  The last tick of a day     *)
(* stands for 23:59:59.999.  The server's zone is taken to have a fixed    *)
(* offset (no daylight-saving shifts), so local calendar arithmetic is     *)
(* plain arithmetic on ticks.                                              *)
(*                                                                         *)
(* Numbers.  Amounts are integers; a quotient is an exact fraction <<n,d>> *)
(* with d > 0, and the IEEE results of dividing by zero are <<0,0>> (NaN), *)
(* <<1,0>> (Infinity) and <<-1,0>> (-Infinity).  Rounding of doubles is    *)
(* not modelled.                                                           *)
(***************************************************************************)
EXTENDS Integers, Sequences, FiniteSets, TLC

VARIABLES
    clock,                 \* new Date() at the time the handler starts
    userId,                \* identity auth() resolves, or Null
    timeframe,             \* searchParams.get('timeframe'), or Null
    startDate,             \* searchParams.get('start'): <<instant>>, or <<>> when absent
    endDate,               \* searchParams.get('end'): <<instant>>, or <<>> when absent
    store,                 \* rows of the Transaction table, in row order
    pc,                    \* position of the handler
    dateRange,             \* the resolved window
    transactions,          \* result of the current-window query
    previousTransactions,  \* result of the previous-window query
    queries,               \* where-clauses sent to the store so far
    trendPoints,           \* the filled trend buckets
    response               \* the response returned; status 0 while there is none

vars ==
    <<clock, userId, timeframe, startDate, endDate, store, pc, dateRange,
      transactions, previousTransactions, queries, trendPoints, response>>

Null == "<null>"

-----------------------------------------------------------------------------
(* Bounds of the model *)

\* resolution of the clock: ticks per hour
TicksPerHour == 4
\* ticks the clock may advance between the handler's two reads of it
MaxDelay == 1

-----------------------------------------------------------------------------
(* Calendar: JavaScript Date in a fixed-offset zone *)

HoursPerDay == 24
DaysPerWeek == 7
MonthsPerYear == 12

TicksPerDay == HoursPerDay * TicksPerHour

\* the calendar years the model's instants lie in; tick 0 is the first
\* instant of the first of them
Years == 2020 .. 2029
EpochYear == CHOOSE y \in Years : \A z \in Years : y <= z

IsLeap(y) == (y % 4 = 0 /\ y % 100 # 0) \/ y % 400 = 0

DaysInYear(y) == IF IsLeap(y) THEN 366 ELSE 365

\* m is a JavaScript month index, 0 .. 11
DaysInMonth(y, m) ==
    IF m = 1 THEN (IF IsLeap(y) THEN 29 ELSE 28)
    ELSE IF m \in {3, 5, 8, 10} THEN 30 ELSE 31

RECURSIVE DaysBeforeYear(_)
DaysBeforeYear(y) ==
    IF y <= EpochYear THEN 0 ELSE DaysBeforeYear(y - 1) + DaysInYear(y - 1)

YearStartDay == [y \in Years \cup {EpochYear + Cardinality(Years)} |-> DaysBeforeYear(y)]

RECURSIVE DaysBeforeMonth(_, _)
DaysBeforeMonth(y, m) ==
    IF m = 0 THEN 0 ELSE DaysBeforeMonth(y, m - 1) + DaysInMonth(y, m - 1)

MonthStartDay == [y \in Years |-> [m \in 0 .. MonthsPerYear |-> DaysBeforeMonth(y, m)]]

\* new Date(y, m, d) with the time of day tod, in ticks: month and day may
\* lie outside their ranges and are carried over as Date does
MakeDate(y, m, d, tod) ==
    LET yy == y + (IF m >= 0 THEN m \div MonthsPerYear
                   ELSE -((MonthsPerYear - 1 - m) \div MonthsPerYear))
        mm == m - (yy - y) * MonthsPerYear
    IN  (YearStartDay[yy] + MonthStartDay[yy][mm] + d - 1) * TicksPerDay + tod

DayNumber(t) == t \div TicksPerDay
TimeOfDay(t) == t % TicksPerDay

getFullYear(t) ==
    CHOOSE y \in Years :
        YearStartDay[y] <= DayNumber(t) /\ DayNumber(t) < YearStartDay[y + 1]

getMonth(t) ==
    LET y == getFullYear(t)
        doy == DayNumber(t) - YearStartDay[y]
    IN  CHOOSE m \in 0 .. MonthsPerYear - 1 :
            MonthStartDay[y][m] <= doy /\ doy < MonthStartDay[y][m + 1]

getDate(t) ==
    LET y == getFullYear(t)
    IN  DayNumber(t) - YearStartDay[y] - MonthStartDay[y][getMonth(t)] + 1

\* 0 is Sunday; 2020-01-01 was a Wednesday (3)
getDay(t) == (DayNumber(t) + 3) % DaysPerWeek

getHours(t) == TimeOfDay(t) \div TicksPerHour

\* date.setHours(h, 0, 0, 0)
setHours(t, h) == t - TimeOfDay(t) + h * TicksPerHour

-----------------------------------------------------------------------------
(* date-fns *)

startOfDay(t) == t - TimeOfDay(t)
endOfDay(t) == t - TimeOfDay(t) + TicksPerDay - 1

addDays(t, n) == t + n * TicksPerDay
subDays(t, n) == addDays(t, -n)

\* the start of the week counted from Monday (weekStartsOn: 1)
startOfWeekMonday(t) == startOfDay(addDays(t, -((getDay(t) + DaysPerWeek - 1) % DaysPerWeek)))

\* weekStartsOn defaults to 0, Sunday
startOfWeek(t) == startOfDay(addDays(t, -getDay(t)))
endOfWeek(t) == endOfDay(addDays(t, (DaysPerWeek - 1) - getDay(t)))

startOfMonth(t) == MakeDate(getFullYear(t), getMonth(t), 1, 0)
endOfMonth(t) == MakeDate(getFullYear(t), getMonth(t) + 1, 0, TicksPerDay - 1)

startOfYear(t) == MakeDate(getFullYear(t), 0, 1, 0)
endOfYear(t) == MakeDate(getFullYear(t) + 1, 0, 0, TicksPerDay - 1)

\* the day of the month is kept unless the target month is shorter, and then
\* the result is the last day of the target month; the time of day is kept
addMonths(t, n) ==
    LET endOfDesiredMonth == MakeDate(getFullYear(t), getMonth(t) + n + 1, 0, TimeOfDay(t))
        daysInMonth == getDate(endOfDesiredMonth)
    IN  IF getDate(t) >= daysInMonth THEN endOfDesiredMonth
        ELSE MakeDate(getFullYear(endOfDesiredMonth), getMonth(endOfDesiredMonth),
                      getDate(t), TimeOfDay(t))

subMonths(t, n) == addMonths(t, -n)
subYears(t, n) == addMonths(t, -(n * MonthsPerYear))

isSameDay(a, b) == startOfDay(a) = startOfDay(b)
isSameMonth(a, b) == getFullYear(a) = getFullYear(b) /\ getMonth(a) = getMonth(b)

\* the outcome of a call that may throw
Returned(v) == [thrown |-> FALSE, value |-> v]
Thrown == [thrown |-> TRUE, value |-> <<>>]

\* the loop of eachDayOfInterval: day, day + 1 day, ... while not after endTime
DaysFrom(day, endTime) ==
    LET count == IF day <= endTime THEN (endTime - day) \div TicksPerDay + 1 ELSE 0
    IN  [k \in 1 .. count |-> addDays(day, k - 1)]

\* the loop of eachMonthOfInterval
RECURSIVE MonthsFrom(_, _)
MonthsFrom(month, endTime) ==
    IF month <= endTime THEN <<month>> \o MonthsFrom(startOfMonth(addMonths(month, 1)), endTime)
    ELSE <<>>

Reverse(s) == [i \in 1 .. Len(s) |-> s[Len(s) + 1 - i]]

\* the possible outcomes of eachDayOfInterval({start, end}).  For an interval
\* whose start is after its end, v2 of the library throws a RangeError and v3
\* returns the days from end to start in descending order.
eachDayOfInterval(start, end) ==
    IF start <= end THEN {Returned(DaysFrom(startOfDay(start), end))}
    ELSE {Thrown, Returned(Reverse(DaysFrom(startOfDay(end), start)))}

\* the possible outcomes of eachMonthOfInterval({start, end}), likewise
eachMonthOfInterval(start, end) ==
    IF start <= end THEN {Returned(MonthsFrom(startOfMonth(start), end))}
    ELSE {Thrown, Returned(Reverse(MonthsFrom(startOfMonth(end), start)))}

WeekdayNames == <<"Sun", "Mon", "Tue", "Wed", "Thu", "Fri", "Sat">>
MonthNames ==
    <<"Jan", "Feb", "Mar", "Apr", "May", "Jun", "Jul", "Aug", "Sep", "Oct", "Nov", "Dec">>

TwoDigits(n) == IF n < 10 THEN "0" \o ToString(n) ELSE ToString(n)

\* format(date, pattern) for the four patterns the handler uses
format(t, pattern) ==
    CASE pattern = "EEE" -> WeekdayNames[getDay(t) + 1]
      [] pattern = "MMM" -> MonthNames[getMonth(t) + 1]
      [] pattern = "MMM dd" -> MonthNames[getMonth(t) + 1] \o " " \o TwoDigits(getDate(t))
      [] pattern = "MMM yyyy" -> MonthNames[getMonth(t) + 1] \o " " \o ToString(getFullYear(t))

\* `${i}:00`
HourName(i) == ToString(i) \o ":00"

-----------------------------------------------------------------------------
(* getDateRange *)

Window(s, e, ps, pe) == [start |-> s, end |-> e, previous |-> [start |-> ps, end |-> pe]]

TodayRange(now) ==
    Window(startOfDay(now), endOfDay(now),
           startOfDay(subDays(now, 1)), endOfDay(subDays(now, 1)))

WeekRange(now) ==
    Window(startOfWeek(now), endOfWeek(now),
           startOfWeek(subDays(now, 7)), endOfWeek(subDays(now, 7)))

MonthRange(now) ==
    Window(startOfMonth(subMonths(now, 11)), endOfMonth(now),
           startOfMonth(subMonths(now, 23)), endOfMonth(subMonths(now, 12)))

YearRange(now) ==
    Window(startOfYear(subYears(now, 2)), endOfYear(now),
           startOfYear(subYears(now, 3)), endOfYear(subYears(now, 1)))

getDateRange(tf, now) ==
    CASE tf = "Today" -> TodayRange(now)
      [] tf = "Week" -> WeekRange(now)
      [] tf = "Month" -> MonthRange(now)
      [] tf = "Year" -> YearRange(now)
      [] OTHER -> TodayRange(now)

\* a string parameter JavaScript treats as false in `a || b` and `!a`
Falsy(x) == x \in {Null, ""}

\* a resolution that lets a supplied timeframe win over the explicit range
ResolveTimeframeFirst(tf, sd, ed, now) ==
    IF sd # <<>> /\ ed # <<>> /\ Falsy(tf)
    THEN Window(sd[1], ed[1], sd[1] - (ed[1] - sd[1]), sd[1])
    ELSE getDateRange(IF Falsy(tf) THEN "Today" ELSE tf, now)

\* the window of a request: the explicit range when both ends are given,
\* else the window of the timeframe, 'Today' when there is none
ResolveDateRange(tf, sd, ed, now) ==
    IF sd # <<>> /\ ed # <<>>
    THEN Window(sd[1], ed[1], sd[1] - (ed[1] - sd[1]), sd[1])
    ELSE getDateRange(IF Falsy(tf) THEN "Today" ELSE tf, now)

-----------------------------------------------------------------------------
(* generateTrendDataPoints *)

Point(n, t) == [name |-> n, timestamp |-> t, value |-> 0]

\* Math.ceil(a / b) for b > 0
Ceil(a, b) == -((-a) \div b)

\* the length in whole days, rounded down
DaysDiffFloor(range) == (range.end - range.start) \div TicksPerDay

\* Math.ceil((end - start) / (1000 * 60 * 60 * 24))
DaysDiff(range) == Ceil(range.end - range.start, TicksPerDay)

MaxDailyDiff == 31
TrendMonths == 12
TrendYears == 3

HourlyPoints(start) ==
    [k \in 1 .. HoursPerDay |-> Point(HourName(k - 1), setHours(start, k - 1))]

PointsOf(dates, pattern) ==
    IF dates.thrown THEN Thrown
    ELSE Returned([k \in 1 .. Len(dates.value) |->
                      Point(format(dates.value[k], pattern), dates.value[k])])

MonthlyTrend(now) ==
    LET monthStart == subMonths(endOfMonth(now), TrendMonths - 1)
    IN  [k \in 1 .. TrendMonths |->
            Point(format(addMonths(monthStart, k - 1), "MMM"), addMonths(monthStart, k - 1))]

YearlyTrend(range) ==
    LET first == getFullYear(range.start)
        kept == {i \in 0 .. TrendYears - 1 : first + i <= getFullYear(range.end)}
    IN  [k \in 1 .. Cardinality(kept) |->
            Point(ToString(first + k - 1), MakeDate(first + k - 1, 0, 1, 0))]

\* the possible outcomes: a sequence of points returned, or Thrown
generateTrendDataPoints(tf, range, now) ==
    IF Falsy(tf)
    THEN IF DaysDiff(range) <= 1 THEN {Returned(HourlyPoints(range.start))}
         ELSE IF DaysDiff(range) <= MaxDailyDiff
              THEN {PointsOf(d, "MMM dd") : d \in eachDayOfInterval(range.start, range.end)}
              ELSE {PointsOf(d, "MMM yyyy") : d \in eachMonthOfInterval(range.start, range.end)}
    ELSE CASE tf = "Today" -> {Returned(HourlyPoints(range.start))}
           [] tf = "Week" ->
                {PointsOf(d, "EEE") : d \in eachDayOfInterval(range.start, range.end)}
           [] tf = "Month" -> {Returned(MonthlyTrend(now))}
           [] tf = "Year" -> {Returned(YearlyTrend(range))}
           [] OTHER -> {Returned(<<>>)}

\* whether a transaction created at transDate is added to the point at pointDate
IsMatch(tf, range, transDate, pointDate) ==
    IF Falsy(tf)
    THEN IF DaysDiff(range) <= 1
         THEN getHours(transDate) = getHours(pointDate) /\ isSameDay(transDate, pointDate)
         ELSE IF DaysDiff(range) <= MaxDailyDiff THEN isSameDay(transDate, pointDate)
              ELSE isSameMonth(transDate, pointDate)
    ELSE IF tf = "Today" THEN getHours(transDate) = getHours(pointDate)
         ELSE IF tf = "Week" THEN isSameDay(transDate, pointDate)
         ELSE IF tf = "Month" THEN isSameMonth(transDate, pointDate)
         ELSE getFullYear(transDate) = getFullYear(pointDate)

RECURSIVE SumAmounts(_)
SumAmounts(txs) ==
    IF txs = <<>> THEN 0 ELSE txs[1].totalAmount + SumAmounts(Tail(txs))

\* the points after every transaction has been added to each point it matches
FillTrend(points, txs, tf, range) ==
    [k \in 1 .. Len(points) |->
        [points[k] EXCEPT !.value =
            SumAmounts(SelectSeq(txs,
                LAMBDA tx : IsMatch(tf, range, tx.createdAt, points[k].timestamp)))]]

-----------------------------------------------------------------------------
(* JavaScript numbers: exact fractions, and the results of dividing by zero *)

Abs(n) == IF n < 0 THEN -n ELSE n
Sign(n) == IF n < 0 THEN -1 ELSE IF n = 0 THEN 0 ELSE 1

RECURSIVE Gcd(_, _)
Gcd(a, b) == IF b = 0 THEN a ELSE Gcd(b, a % b)

\* n / d in lowest terms with a positive denominator, for d # 0
Frac(n, d) ==
    LET g == Gcd(Abs(n), Abs(d))
    IN  <<(Sign(d) * n) \div g, Abs(d) \div g>>

Num(n) == <<n, 1>>
NaN == <<0, 0>>
Finite(x) == x[2] # 0

\* a / b: a finite number, or Infinity, -Infinity or NaN when b is 0
Divide(a, b) ==
    IF ~Finite(a) \/ ~Finite(b) THEN NaN
    ELSE IF b[1] = 0 THEN <<Sign(a[1]), 0>>
    ELSE Frac(a[1] * b[2], a[2] * b[1])

\* a * b: Infinity and NaN carry over
Times(a, b) ==
    IF ~Finite(a) \/ ~Finite(b) THEN <<Sign(a[1]) * Sign(b[1]), 0>>
    ELSE Frac(a[1] * b[1], a[2] * b[2])

Minus(a, b) ==
    IF ~Finite(a) \/ ~Finite(b) THEN NaN
    ELSE Frac(a[1] * b[2] - b[1] * a[2], a[2] * b[2])

\* x > 0
Positive(x) == x[1] > 0

-----------------------------------------------------------------------------
(* GET: key performance metrics *)

\* totalOrders > 0 ? totalRevenue / totalOrders : 0
AverageValue(revenue, orders) ==
    IF orders > 0 THEN Divide(Num(revenue), Num(orders)) ELSE Num(0)

\* the percentage change computed without the guard on the previous value
PercentChangeUnguarded(current, previous) ==
    Times(Divide(Minus(current, previous), previous), Num(100))

\* previous > 0 ? ((current - previous) / previous) * 100 : 0
PercentChange(current, previous) ==
    IF Positive(previous)
    THEN Times(Divide(Minus(current, previous), previous), Num(100))
    ELSE Num(0)

Metrics(txs, prevTxs) ==
    LET totalRevenue == SumAmounts(txs)
        totalOrders == Len(txs)
        avgOrderValue == AverageValue(totalRevenue, totalOrders)
        previousRevenue == SumAmounts(prevTxs)
        previousOrders == Len(prevTxs)
        previousAvgValue == AverageValue(previousRevenue, previousOrders)
        revenueChange == PercentChange(Num(totalRevenue), Num(previousRevenue))
        ordersChange == PercentChange(Num(totalOrders), Num(previousOrders))
        avgValueChange == PercentChange(avgOrderValue, previousAvgValue)
    IN  [totalRevenue |-> totalRevenue,
         totalOrders |-> totalOrders,
         avgOrderValue |-> avgOrderValue,
         previousPeriodComparison |->
            [revenue |-> revenueChange, sales |-> ordersChange,
             avgOrder |-> avgValueChange, orders |-> ordersChange]]

-----------------------------------------------------------------------------
(* GET: line items *)

\* a Map, as its entries in insertion order
MapHas(map, k) == \E i \in 1 .. Len(map) : map[i].key = k
MapGet(map, k) == map[CHOOSE i \in 1 .. Len(map) : map[i].key = k].value
MapSet(map, k, v) ==
    IF MapHas(map, k)
    THEN [i \in 1 .. Len(map) |-> IF map[i].key = k THEN [key |-> k, value |-> v] ELSE map[i]]
    ELSE Append(map, [key |-> k, value |-> v])

\* the items in the order the nested forEach visits them
RECURSIVE AllItems(_)
AllItems(txs) == IF txs = <<>> THEN <<>> ELSE txs[1].items \o AllItems(Tail(txs))

RECURSIVE ProductSales(_, _)
ProductSales(items, map) ==
    IF items = <<>> THEN map
    ELSE LET item == Head(items)
             currentSales ==
                 IF MapHas(map, item.productId) THEN MapGet(map, item.productId)
                 ELSE [name |-> item.productName, quantity |-> 0, revenue |-> 0]
         IN  ProductSales(Tail(items),
                 MapSet(map, item.productId,
                     [name |-> item.productName,
                      quantity |-> currentSales.quantity + item.quantity,
                      revenue |-> currentSales.revenue + item.total]))

\* Array.prototype.sort with (a, b) => b.revenue - a.revenue: descending by
\* revenue, and stable
RECURSIVE InsertByRevenue(_, _)

\* an insertion that puts an entry before the entries of equal revenue
RECURSIVE InsertByRevenueUnstable(_, _)
InsertByRevenueUnstable(sorted, x) ==
    IF sorted = <<>> THEN <<x>>
    ELSE IF Head(sorted).revenue > x.revenue
         THEN <<Head(sorted)>> \o InsertByRevenueUnstable(Tail(sorted), x)
         ELSE <<x>> \o sorted

InsertByRevenue(sorted, x) ==
    IF sorted = <<>> THEN <<x>>
    ELSE IF Head(sorted).revenue >= x.revenue
         THEN <<Head(sorted)>> \o InsertByRevenue(Tail(sorted), x)
         ELSE <<x>> \o sorted

RECURSIVE SortByRevenue(_)
SortByRevenue(list) ==
    IF list = <<>> THEN <<>>
    ELSE InsertByRevenue(SortByRevenue(SubSeq(list, 1, Len(list) - 1)), list[Len(list)])

TopCount == 5

\* list.slice(0, n)
Slice(list, n) == SubSeq(list, 1, IF Len(list) < n THEN Len(list) ELSE n)

TopProducts(txs) ==
    LET productSales == ProductSales(AllItems(txs), <<>>)
        entries == [i \in 1 .. Len(productSales) |->
                       [id |-> productSales[i].key,
                        name |-> productSales[i].value.name,
                        revenue |-> productSales[i].value.revenue,
                        quantity |-> productSales[i].value.quantity]]
    IN  Slice(SortByRevenue(entries), TopCount)

\* item.category || 'Uncategorized'
CategoryOf(item) == IF Falsy(item.category) THEN "Uncategorized" ELSE item.category

RECURSIVE CategoryRevenue(_, _)
CategoryRevenue(items, map) ==
    IF items = <<>> THEN map
    ELSE LET category == CategoryOf(Head(items))
             currentRevenue == IF MapHas(map, category) THEN MapGet(map, category) ELSE 0
         IN  CategoryRevenue(Tail(items),
                 MapSet(map, category, currentRevenue + Head(items).total))

RevenueByCategory(txs, totalRevenue) ==
    LET categoryRevenue == CategoryRevenue(AllItems(txs), <<>>)
    IN  [i \in 1 .. Len(categoryRevenue) |->
            [category |-> categoryRevenue[i].key,
             revenue |-> categoryRevenue[i].value,
             percentage |->
                Times(Divide(Num(categoryRevenue[i].value), Num(totalRevenue)), Num(100))]]

-----------------------------------------------------------------------------
(* GET *)

NoResponse == [status |-> 0, body |-> [error |-> ""]]
Unauthorized401 == [status |-> 401, body |-> [error |-> "Unauthorized"]]
InternalError500 == [status |-> 500, body |-> [error |-> "Internal server error"]]

SalesTrend(points) == [k \in 1 .. Len(points) |-> [name |-> points[k].name, value |-> points[k].value]]

Report(txs, prevTxs, points) ==
    [status |-> 200,
     body |-> [metrics |-> Metrics(txs, prevTxs),
               salesTrend |-> SalesTrend(points),
               topProducts |-> TopProducts(txs),
               revenueByCategory |-> RevenueByCategory(txs, SumAmounts(txs))]]

\* the statements after the two queries: the possible pairs of the response
\* and of the trend points it was made from
Aggregate(tf, range, txs, prevTxs, now) ==
    {IF g.thrown THEN [response |-> InternalError500, points |-> <<>>]
     ELSE LET filled == FillTrend(g.value, txs, tf, range)
          IN  [response |-> Report(txs, prevTxs, filled), points |-> filled] :
        g \in generateTrendDataPoints(tf, range, now)}

\* prisma.transaction.findMany({where: {createdAt: {gte, lte}}})
FindMany(rows, where) ==
    SelectSeq(rows, LAMBDA tx : where.gte <= tx.createdAt /\ tx.createdAt <= where.lte)

\* the identity checked only after the first query has been sent
UnauthorizedAfterQuery ==
    /\ pc = "start"
    /\ Falsy(userId)
    /\ queries' = <<[gte |-> TodayRange(clock).start, lte |-> TodayRange(clock).end]>>
    /\ response' = Unauthorized401
    /\ pc' = "done"
    /\ UNCHANGED <<clock, userId, timeframe, startDate, endDate, store, dateRange,
                   transactions, previousTransactions, trendPoints>>

\* auth() resolves no identity
Unauthorized ==
    /\ pc = "start"
    /\ Falsy(userId)
    /\ response' = Unauthorized401
    /\ pc' = "done"
    /\ UNCHANGED <<clock, userId, timeframe, startDate, endDate, store, dateRange,
                   transactions, previousTransactions, queries, trendPoints>>

\* the window is resolved and the current-window query is sent
Begin ==
    /\ pc = "start"
    /\ ~Falsy(userId)
    /\ LET range == ResolveDateRange(timeframe, startDate, endDate, clock)
       IN  /\ dateRange' = range
           /\ queries' = <<[gte |-> range.start, lte |-> range.end]>>
    /\ pc' = "awaitCurrent"
    /\ UNCHANGED <<clock, userId, timeframe, startDate, endDate, store,
                   transactions, previousTransactions, trendPoints, response>>

\* the current-window query answers and the previous-window query is sent
CurrentFetched ==
    /\ pc = "awaitCurrent"
    /\ transactions' = FindMany(store, queries[1])
    /\ queries' = Append(queries,
                         [gte |-> dateRange.previous.start, lte |-> dateRange.previous.end])
    /\ pc' = "awaitPrevious"
    /\ UNCHANGED <<clock, userId, timeframe, startDate, endDate, store, dateRange,
                   previousTransactions, trendPoints, response>>

\* the current-window query rejects: the catch block answers
CurrentFailed ==
    /\ pc = "awaitCurrent"
    /\ response' = InternalError500
    /\ pc' = "done"
    /\ UNCHANGED <<clock, userId, timeframe, startDate, endDate, store, dateRange,
                   transactions, previousTransactions, queries, trendPoints>>

\* the previous-window query answers and the report is computed; the clock
\* is read again by generateTrendDataPoints
PreviousFetched ==
    /\ pc = "awaitPrevious"
    /\ \E delay \in 0 .. MaxDelay :
         LET prevTxs == FindMany(store, queries[2])
         IN  \E out \in Aggregate(timeframe, dateRange, transactions, prevTxs, clock + delay) :
                /\ previousTransactions' = prevTxs
                /\ clock' = clock + delay
                /\ trendPoints' = out.points
                /\ response' = out.response
    /\ pc' = "done"
    /\ UNCHANGED <<userId, timeframe, startDate, endDate, store, dateRange,
                   transactions, queries>>

\* the previous-window query rejects: the catch block answers
PreviousFailed ==
    /\ pc = "awaitPrevious"
    /\ response' = InternalError500
    /\ pc' = "done"
    /\ UNCHANGED <<clock, userId, timeframe, startDate, endDate, store, dateRange,
                   transactions, previousTransactions, queries, trendPoints>>

Next ==
    \/ Unauthorized
    \/ Begin
    \/ CurrentFetched
    \/ CurrentFailed
    \/ PreviousFetched
    \/ PreviousFailed

-----------------------------------------------------------------------------
(* Requests, clocks and stores the handler is run on *)

\* more bounds of the model
\* parts a window is cut into to place the sampled transactions
ProbeParts == 4
\* rows of the store in the calendar runs
MaxCalTx == 2
\* rows of the store in the metric runs
MaxKpiTx == 3
\* line-item runs: products of the catalogue, items sold in all, items of one
\* sale, and the step from one item's product to the next one's
NumProducts == 6
MaxSold == 8
MaxItems == 3
MaxStride == 2

InitHandler ==
    /\ pc = "start"
    /\ dateRange = Window(0, 0, 0, 0)
    /\ transactions = <<>>
    /\ previousTransactions = <<>>
    /\ queries = <<>>
    /\ trendPoints = <<>>
    /\ response = NoResponse

UserIds == {Null, "user_1"}
Timeframes == {Null, "", "Today", "Week", "Month", "Year", "Quarter"}

\* the instant <<year, month 1 .. 12, day, hour, tick of the hour>>
At(c) == MakeDate(c[1], c[2] - 1, c[3], c[4] * TicksPerHour + c[5])
LastTick == TicksPerHour - 1
Days(n) == n * TicksPerDay

ClockSamples ==
    {At(<<2026, 11, 6, 8, 1>>),           \* a Friday morning
     At(<<2024, 2, 29, 12, 0>>),          \* a leap day
     At(<<2024, 3, 31, 23, LastTick>>),   \* last instant of a 31-day month, a Sunday
     At(<<2024, 12, 31, 23, LastTick>>),  \* last instant of a year
     At(<<2025, 1, 1, 0, 0>>),            \* first instant of a year
     At(<<2025, 5, 31, 10, 0>>),          \* a Saturday, the 31st
     At(<<2025, 3, 2, 0, 0>>),            \* first instant of a week
     At(<<2023, 1, 15, 17, 2>>)}

CustomClock == At(<<2024, 3, 31, 23, LastTick>>)

RangeStarts ==
    {At(<<2024, 1, 1, 0, 0>>), At(<<2024, 1, 1, 18, 0>>), At(<<2024, 2, 20, 12, 0>>)}

\* end - start of the explicit ranges; the negative one is a reversed range
RangeLengths ==
    {0, Days(1) - 1, Days(1), Days(10) - 1, Days(10) - (TicksPerDay \div 2), Days(10),
     Days(31) - 1, Days(31), Days(31) + 1, Days(91), Days(1461), -Days(2)}

Item(p, name, category, total) ==
    [productId |-> p, productName |-> name, category |-> category,
     quantity |-> 1, total |-> total]

Row(i, t, amount, items) ==
    [id |-> i, createdAt |-> t, totalAmount |-> amount, items |-> items]

\* instants spread over the window, both ends included
Probes(range) ==
    IF range.start > range.end THEN {}
    ELSE {range.start + ((range.end - range.start) * k) \div ProbeParts : k \in 0 .. ProbeParts}

RECURSIVE Ascending(_)
Ascending(S) ==
    IF S = {} THEN <<>>
    ELSE LET least == CHOOSE x \in S : \A y \in S : x <= y
         IN  <<least>> \o Ascending(S \ {least})

\* a store of one-item sales made at the instants of S
CalStore(S) ==
    LET times == Ascending(S)
    IN  [i \in 1 .. Len(times) |->
            Row(i, times[i], 50 * i, <<Item("p1", "Ring", "Rings", 50 * i)>>)]

CalStores(range) == {CalStore(S) : S \in {T \in SUBSET Probes(range) : Cardinality(T) <= MaxCalTx}}

InitCal ==
    /\ InitHandler
    /\ userId \in UserIds
    /\ timeframe \in Timeframes
    /\ \/ /\ clock \in ClockSamples
          /\ \E given \in {<<<<>>, <<>>>>, <<<<CustomClock>>, <<>>>>, <<<<>>, <<CustomClock>>>>} :
                startDate = given[1] /\ endDate = given[2]
       \/ /\ clock = CustomClock
          /\ \E s \in RangeStarts, l \in RangeLengths :
                startDate = <<s>> /\ endDate = <<s + l>>
    /\ store \in CalStores(ResolveDateRange(timeframe, startDate, endDate, clock))

SpecCal == InitCal /\ [][Next]_vars

\* ---- metric runs: sales of three amounts, made now, a day ago and a week ago

KpiClock == At(<<2026, 11, 6, 9, 1>>)
KpiAmounts == {0, 50, 100}
KpiInstants == {KpiClock, subDays(KpiClock, 1), subDays(KpiClock, 7)}

KpiSales == {[createdAt |-> t, totalAmount |-> a] : t \in KpiInstants, a \in KpiAmounts}

SeqsUpTo(S, n) == UNION {[1 .. k -> S] : k \in 0 .. n}

KpiStore(sales) ==
    [i \in 1 .. Len(sales) |->
        Row(i, sales[i].createdAt, sales[i].totalAmount,
            <<Item("p1", "Ring", "Rings", sales[i].totalAmount)>>)]

InitKpi ==
    /\ InitHandler
    /\ userId \in UserIds
    /\ timeframe \in {"Today", "Week"}
    /\ clock = KpiClock
    /\ startDate = <<>>
    /\ endDate = <<>>
    /\ store \in {KpiStore(sales) : sales \in SeqsUpTo(KpiSales, MaxKpiTx)}

SpecKpi == InitKpi /\ [][Next]_vars

\* ---- line-item runs: the items sold today walk round the catalogue from
\* some product in steps of some stride, MaxItems of them to a sale; a sale's
\* amount is the sum of its line totals plus a flat fee

Products == 1 .. NumProducts
Price(p) == 10 * (1 + (p % 3))
Category(p) ==
    IF p % 3 = 0 THEN "Rings"
    ELSE IF p % 3 = 1 THEN "Chains"
    ELSE IF p % 2 = 0 THEN "" ELSE Null

ProductItem(p) ==
    [productId |-> p, productName |-> "Product", category |-> Category(p),
     quantity |-> 1 + (p % 2), total |-> Price(p)]

Fees == {0, 5}

RECURSIVE SumTotals(_)
SumTotals(items) == IF items = <<>> THEN 0 ELSE items[1].total + SumTotals(Tail(items))

SoldItems(first, stride, count) ==
    [k \in 1 .. count |-> ProductItem(((first - 1 + (k - 1) * stride) % NumProducts) + 1)]

\* the sold items, cut into sales of at most MaxItems items
ItemStore(sold, fee) ==
    LET sales == (Len(sold) + MaxItems - 1) \div MaxItems
    IN  [i \in 1 .. sales |->
            LET items == SubSeq(sold, (i - 1) * MaxItems + 1,
                                IF i * MaxItems < Len(sold) THEN i * MaxItems ELSE Len(sold))
            IN  Row(i, KpiClock, SumTotals(items) + fee, items)]

ItemStores ==
    {ItemStore(SoldItems(first, stride, count), fee) :
        first \in Products, stride \in 1 .. MaxStride, count \in 0 .. MaxSold, fee \in Fees}

InitItems ==
    /\ InitHandler
    /\ userId \in UserIds
    /\ timeframe = "Today"
    /\ clock = KpiClock
    /\ startDate = <<>>
    /\ endDate = <<>>
    /\ store \in ItemStores

SpecItems == InitItems /\ [][Next]_vars

-----------------------------------------------------------------------------
(* Properties *)

Named == {"Today", "Week", "Month", "Year"}
ExplicitRange == startDate # <<>> /\ endDate # <<>>
Succeeded == pc = "done" /\ response.status = 200

\* x is the finite number n / d
IsQuotient(x, n, d) == Finite(x) /\ x[1] * d = n * x[2]

\* ---- C1

\* the three changes of a report against sums and counts taken from the two
\* fetched sets
KpiChangesRight ==
    LET m == response.body.metrics
        cmp == m.previousPeriodComparison
        rev == SumAmounts(transactions)
        ord == Len(transactions)
        prevRev == SumAmounts(previousTransactions)
        prevOrd == Len(previousTransactions)
        avg == m.avgOrderValue
    IN  /\ m.totalRevenue = rev /\ m.totalOrders = ord
        /\ IF ord = 0 THEN avg = Num(0) ELSE IsQuotient(avg, rev, ord)
        /\ IF prevRev = 0 THEN cmp.revenue = Num(0)
           ELSE IsQuotient(cmp.revenue, (rev - prevRev) * 100, prevRev)
        /\ IF prevOrd = 0 THEN cmp.orders = Num(0) /\ cmp.sales = Num(0)
           ELSE /\ IsQuotient(cmp.orders, (ord - prevOrd) * 100, prevOrd)
                /\ cmp.sales = cmp.orders
        \* the previous average is prevRev / prevOrd, or 0 without orders
        /\ IF prevOrd = 0 \/ prevRev = 0 THEN cmp.avgOrder = Num(0)
           ELSE IsQuotient(cmp.avgOrder,
                           (avg[1] * prevOrd - prevRev * avg[2]) * 100, avg[2] * prevRev)

\* C1: in every report the average order value is totalRevenue / totalOrders,
\* and 0 without orders; each of the three percentage changes is
\* (current - previous) / previous * 100, and 0 when the previous value is 0;
\* all of them are finite numbers.
C1_KpisNeverDivideByZero == Succeeded => KpiChangesRight

\* a week with sales whose previous week has none, and a report was made
C1_Witness ==
    /\ Succeeded
    /\ timeframe = "Week"
    /\ previousTransactions = <<>>
    /\ SumAmounts(transactions) > 0
    /\ response.body.metrics.previousPeriodComparison.revenue = Num(0)

\* ---- C2

Increasing(points) ==
    \A i, j \in 1 .. Len(points) : i < j => points[i].timestamp < points[j].timestamp

\* no instant among the sampled ones, the fetched ones and the buckets' own
\* is matched by two buckets
Exclusive(points, instants) ==
    \A t \in instants :
        Cardinality({k \in 1 .. Len(points) :
                        IsMatch(timeframe, dateRange, t, points[k].timestamp)}) <= 1

SampledInstants ==
    Probes(dateRange) \cup {transactions[i].createdAt : i \in 1 .. Len(transactions)}
        \cup {trendPoints[k].timestamp : k \in 1 .. Len(trendPoints)}

\* C2: for a named timeframe and the window getDateRange resolves for it the
\* trend has 24 buckets for Today, 7 for Week, 12 for Month and at most 3 for
\* Year, with strictly increasing timestamps, and no instant matches two
\* buckets.
C2_BucketsCountedOrderedExclusive ==
    (Succeeded /\ timeframe \in Named /\ ~ExplicitRange) =>
        /\ timeframe = "Today" => Len(trendPoints) = 24
        /\ timeframe = "Week" => Len(trendPoints) = 7
        /\ timeframe = "Month" => Len(trendPoints) = 12
        /\ timeframe = "Year" => Len(trendPoints) <= 3
        /\ Increasing(trendPoints)
        /\ Exclusive(trendPoints, SampledInstants)

\* the twelve months counted back from the last instant of a 31-day month
C2_Witness ==
    /\ Succeeded
    /\ timeframe = "Month"
    /\ ~ExplicitRange
    /\ getDate(clock) = 31
    /\ Len(trendPoints) = 12
    /\ transactions # <<>>

\* ---- C3

\* the length of a window in the unit of its timeframe
CalendarLength(tf, s, e) ==
    CASE tf = "Month" ->
            (getFullYear(e) * MonthsPerYear + getMonth(e))
                - (getFullYear(s) * MonthsPerYear + getMonth(s)) + 1
      [] tf = "Year" -> getFullYear(e) - getFullYear(s) + 1
      [] OTHER -> DayNumber(e) - DayNumber(s) + 1

\* C3: for every named timeframe the resolved window has start <= end, and
\* its previous window ends where it starts, without overlap (previous.end <=
\* start), and spans the same calendar length.
C3_PreviousWindowPrecedes ==
    (pc # "start" /\ ~Falsy(userId) /\ timeframe \in Named /\ ~ExplicitRange) =>
        /\ dateRange.start <= dateRange.end
        /\ dateRange.previous.end <= dateRange.start
        /\ dateRange.start - dateRange.previous.end <= 1
        /\ CalendarLength(timeframe, dateRange.previous.start, dateRange.previous.end)
             = CalendarLength(timeframe, dateRange.start, dateRange.end)

\* ---- C4

Plus(a, b) == Frac(a[1] * b[2] + b[1] * a[2], a[2] * b[2])

RECURSIVE SumPercentages(_)
SumPercentages(rows) ==
    IF rows = <<>> THEN Num(0) ELSE Plus(rows[1].percentage, SumPercentages(Tail(rows)))

\* C4: when totalRevenue > 0 the percentages of revenueByCategory sum to 100.
C4_PercentagesSumTo100 ==
    (Succeeded /\ response.body.metrics.totalRevenue > 0) =>
        SumPercentages(response.body.revenueByCategory) = Num(100)

\* ---- C5

SoldToday == AllItems(transactions)
ProductIds == {SoldToday[i].productId : i \in 1 .. Len(SoldToday)}
RevenueOf(p) == SumTotals(SelectSeq(SoldToday, LAMBDA item : item.productId = p))
FirstSeen(p) == CHOOSE i \in 1 .. Len(SoldToday) :
                    SoldToday[i].productId = p /\ \A j \in 1 .. i - 1 : SoldToday[j].productId # p

\* C5: topProducts has at most 5 entries, one per distinct product, each with
\* the product's accumulated revenue, in descending order of revenue, equal
\* revenues in the order the products were first met in the scan; no product
\* left out has more revenue than one that is included.
C5_TopFiveStableByRevenue ==
    Succeeded =>
        LET top == response.body.topProducts
            ids == {top[i].id : i \in 1 .. Len(top)}
        IN  /\ Len(top) <= 5
            /\ Len(top) = (IF Cardinality(ProductIds) < 5 THEN Cardinality(ProductIds) ELSE 5)
            /\ Cardinality(ids) = Len(top)
            /\ ids \subseteq ProductIds
            /\ \A i \in 1 .. Len(top) : top[i].revenue = RevenueOf(top[i].id)
            /\ \A i, j \in 1 .. Len(top) :
                  i < j => \/ top[i].revenue > top[j].revenue
                           \/ /\ top[i].revenue = top[j].revenue
                              /\ FirstSeen(top[i].id) < FirstSeen(top[j].id)
            /\ \A p \in ProductIds \ ids : \A i \in 1 .. Len(top) :
                  \/ RevenueOf(p) < top[i].revenue
                  \/ RevenueOf(p) = top[i].revenue /\ FirstSeen(top[i].id) < FirstSeen(p)

\* more than five products sold, one of them sold twice, and the last place
\* of the list is tied with a product that is left out
C5_Witness ==
    /\ Succeeded
    /\ Cardinality(ProductIds) > 5
    /\ Len(SoldToday) > Cardinality(ProductIds)
    /\ Len(transactions) > 1
    /\ \E p \in ProductIds :
          /\ \A i \in 1 .. Len(response.body.topProducts) : response.body.topProducts[i].id # p
          /\ RevenueOf(p) = response.body.topProducts[5].revenue

\* ---- C6

ReportFields == {"metrics", "salesTrend", "topProducts", "revenueByCategory"}

\* C6: a request ends in exactly one of three ways.  Without an identity: 401
\* with an error body, before any query or aggregation.  When a fetch or the
\* aggregation fails: 500 with an error body and no report data.  Otherwise
\* 200 with the whole report.  Each query is sent once at most, and nothing
\* happens after the response.
C6_OneOutcomePerRequest ==
    /\ pc # "done" => response = NoResponse
    /\ Len(queries) <= 2
    /\ pc = "done" =>
        /\ ~ENABLED Next
        /\ response.status \in {401, 500, 200}
        /\ response.status = 401 <=> Falsy(userId)
        /\ response.status = 401 =>
              /\ DOMAIN response.body = {"error"}
              /\ queries = <<>> /\ transactions = <<>> /\ previousTransactions = <<>>
              /\ trendPoints = <<>>
        /\ response.status = 500 => DOMAIN response.body = {"error"}
        /\ response.status = 200 =>
              /\ DOMAIN response.body = ReportFields
              /\ Len(queries) = 2

\* a request that fails after its first query has answered with rows
C6_Witness ==
    /\ pc = "done"
    /\ response.status = 500
    /\ transactions # <<>>
    /\ Len(queries) = 2

\* ---- C7

\* the trend of a Today request over the same fetched rows
TodayTrend ==
    SalesTrend(FillTrend(HourlyPoints(dateRange.start), transactions, "Today", dateRange))

\* C7: without an explicit range, a request whose timeframe is absent or is
\* not one of the four names gets the window, the previous window and the 24
\* hourly buckets of a Today request.
C7_UnknownTimeframeIsToday ==
    (~ExplicitRange /\ timeframe \notin Named) =>
        /\ pc \in {"awaitCurrent", "awaitPrevious"} => dateRange = getDateRange("Today", clock)
        /\ Succeeded =>
              /\ Len(response.body.salesTrend) = 24
              /\ response.body.salesTrend = TodayTrend

\* ---- C8

\* C8: with start and end both supplied the first query asks for [start, end]
\* whatever the timeframe, and the previous window is [start - (end - start),
\* start], as long as the current one; with only one of them supplied the
\* window is the timeframe's.
C8_ExplicitRangeOverridesTimeframe ==
    (pc # "start" /\ ~Falsy(userId)) =>
        /\ ExplicitRange =>
              /\ queries[1] = [gte |-> startDate[1], lte |-> endDate[1]]
              /\ dateRange.previous.end = startDate[1]
              /\ dateRange.previous.start = startDate[1] - (endDate[1] - startDate[1])
              /\ dateRange.previous.end - dateRange.previous.start
                    = dateRange.end - dateRange.start
              /\ Len(queries) = 2 =>
                    queries[2] = [gte |-> dateRange.previous.start, lte |-> startDate[1]]
        /\ (~ExplicitRange /\ pc \in {"awaitCurrent", "awaitPrevious"}) =>
              dateRange = getDateRange(IF Falsy(timeframe) THEN "Today" ELSE timeframe, clock)

\* an explicit range of 91 days sent together with timeframe=Month
C8_Witness ==
    /\ Succeeded
    /\ ExplicitRange
    /\ timeframe = "Month"
    /\ endDate[1] - startDate[1] = Days(91)
    /\ transactions # <<>>

\* ---- C9

CustomRequest == Falsy(timeframe) /\ ExplicitRange

DaysTouched(range) == DayNumber(range.end) - DayNumber(range.start) + 1
MonthsTouched(range) == CalendarLength("Month", range.start, range.end)

\* the buckets of a custom request, from the length of its window alone
Hourly == /\ Len(trendPoints) = 24
          /\ \A k \in 1 .. 24 :
                /\ trendPoints[k].name = HourName(k - 1)
                /\ trendPoints[k].timestamp = startOfDay(dateRange.start) + (k - 1) * TicksPerHour
Daily == /\ Len(trendPoints) = DaysTouched(dateRange)
         /\ \A k \in 1 .. Len(trendPoints) :
               /\ trendPoints[k].timestamp = startOfDay(dateRange.start) + Days(k - 1)
               /\ trendPoints[k].name = format(trendPoints[k].timestamp, "MMM dd")
Monthly == /\ Len(trendPoints) = MonthsTouched(dateRange)
           /\ \A k \in 1 .. Len(trendPoints) :
                 /\ getDate(trendPoints[k].timestamp) = 1
                 /\ TimeOfDay(trendPoints[k].timestamp) = 0
                 /\ CalendarLength("Month", dateRange.start, trendPoints[k].timestamp) = k
                 /\ trendPoints[k].name = format(trendPoints[k].timestamp, "MMM yyyy")

GranularityByLength ==
    LET length == dateRange.end - dateRange.start
    IN  IF length <= Days(1) THEN Hourly
        ELSE IF length <= Days(31) THEN Daily
        ELSE Monthly

\* C9 as stated: the granularity follows from the length of the window, and
\* a range of 10 days has exactly 10 daily buckets.
C9_TenDaysTenBuckets ==
    (Succeeded /\ CustomRequest) =>
        /\ GranularityByLength
        /\ DaysDiff(dateRange) = 10 => Len(trendPoints) = 10

\* C9 as amended: the granularity follows from the length of the window: at
\* most 1 day gives 24 hourly buckets, at most 31 days one bucket per
\* calendar day the window touches, anything longer one bucket per calendar
\* month it touches.  A range of 10 days has 10 daily buckets when it lies
\* within 10 calendar days and 11 when it reaches into an eleventh.
C9_GranularityByLength ==
    (Succeeded /\ CustomRequest) =>
        /\ GranularityByLength
        /\ DaysDiff(dateRange) = 10 =>
              /\ Len(trendPoints) = DaysTouched(dateRange)
              /\ Len(trendPoints) \in {10, 11}

\* a range from one midnight to the midnight ten days later: 11 buckets
C9_Witness ==
    /\ Succeeded
    /\ CustomRequest
    /\ TimeOfDay(dateRange.start) = 0
    /\ dateRange.end - dateRange.start = Days(10)
    /\ Len(trendPoints) = 11

\* ---- C10

\* the sum of the values of points[lo .. hi], by halves
RECURSIVE SumRange(_, _, _)
SumRange(points, lo, hi) ==
    IF lo > hi THEN 0
    ELSE IF lo = hi THEN points[lo].value
    ELSE SumRange(points, lo, (lo + hi) \div 2) + SumRange(points, (lo + hi) \div 2 + 1, hi)

SumValues(points) == SumRange(points, 1, Len(points))

MatchesOf(tx) ==
    Cardinality({k \in 1 .. Len(trendPoints) :
                    IsMatch(timeframe, dateRange, tx.createdAt, trendPoints[k].timestamp)})

\* C10: in every successful request, for a named timeframe or a custom range
\* with start <= end (with or without a timeframe beside it), each fetched
\* transaction is added to exactly one bucket and the values of salesTrend
\* sum to totalRevenue.
C10_TrendSumsToRevenue ==
    (/\ Succeeded
     /\ timeframe \in Named \/ Falsy(timeframe)
     /\ ExplicitRange => startDate[1] <= endDate[1]) =>
        /\ \A i \in 1 .. Len(transactions) : MatchesOf(transactions[i]) = 1
        /\ SumValues(response.body.salesTrend) = response.body.metrics.totalRevenue

=============================================================================
